---- MODULE Spec2Model ----
(***************************************************************************)
(* Discrete-time spiking-network simulation and plasticity engine of the   *)
(* silicon repository: the Clock, the Izhikevich and LIF neuron models,    *)
(* the SpikeRecorder, the STDP synapse, the five systems of                *)
(* SimulationPlugin, decay_synapses of SynapsePlugin and the reward loop   *)
(* insert_current of the application.                                      *)
(*                                                                         *)
(* Numbers.  The program computes in f64.  The model computes in fixed     *)
(* point: times, potentials and rewards in units of 1/Scale, weights and   *)
(* eligibility traces in units of 1/WScale; a product is truncated toward  *)
(* zero.  f64::EPSILON is below one unit, so |a| > EPSILON is a # 0.       *)
(*                                                                         *)
(* Scheduling.  The systems are added to the Update schedule without       *)
(* ordering constraints, so within one frame each system runs exactly once *)
(* and to completion (systems with conflicting access never overlap), in   *)
(* an order the executor picks.  Commands (despawn) are applied when the   *)
(* schedule ends.                                                          *)
(***************************************************************************)
EXTENDS Integers, Sequences, FiniteSets, TLC

VARIABLES
    clock,          \* Res<Clock>
    neurons,        \* the Neuron component of every neuron entity
    recorders,      \* the SimpleSpikeRecorder component of every neuron entity
    synapses,       \* the StdpSynapse component of every synapse entity
    alive,          \* the synapse entities that are spawned
    despawn,        \* Commands queued by prune_synapses, applied at schedule end
    spike_events,   \* Events<SpikeEvent> and the EventReader cursor of update_synapses
    stdp_settings,  \* ResMut<StdpSettings>
    decay,          \* Option<ResMut<SynapseDecay>>
    encoder,        \* ResMut<EncoderState>
    deferred,       \* Events<DeferredStdpEvent>
    pending,        \* the systems of the Update schedule that have not run in this frame
    frame,          \* number of completed runs of the Update schedule
    ui_edits,       \* number of user interactions so far
    schedule,       \* the systems the App's plugins added to the Update schedule
    calls,          \* the method calls made on a component directly (history only)
    tick            \* observation of the current frame (history only, read by no system)

vars == <<clock, neurons, recorders, synapses, alive, despawn, spike_events,
          stdp_settings, decay, encoder, deferred, pending, frame, ui_edits,
          schedule, calls, tick>>

-----------------------------------------------------------------------------
(* Bounds of the model *)

MaxFrames == 4
MaxUiEdits == 2
MaxDeferred == 2
MaxCalls == 5
MaxCapacity == 3
MaxTicks == 5

-----------------------------------------------------------------------------
(* Fixed-point arithmetic *)

\* one unit of time, potential and reward is 1/Scale
Scale == 10 ^ 3

\* one unit of weight and eligibility trace is 1/WScale
WScale == Scale * Scale

Abs(x) == IF x >= 0 THEN x ELSE -x

Min(x, y) == IF x <= y THEN x ELSE y

Max(x, y) == IF x >= y THEN x ELSE y

TruncDiv(x, d) == IF x >= 0 THEN x \div d ELSE -((-x) \div d)

\* x * y of two Scale-valued numbers, as a Scale-valued number
Mul(x, y) == TruncDiv(x * y, Scale)

\* x * x without leaving the 32-bit range for |x| < 700 * Scale
Square(x) ==
    LET m == Abs(x) IN m * (m \div Scale) + (m * (m % Scale)) \div Scale

\* f64::clamp(lo, hi); the program panics when lo > hi
Clamp(x, lo, hi) == IF x < lo THEN lo ELSE IF x > hi THEN hi ELSE x

-----------------------------------------------------------------------------
(* Entities *)

Neurons == {1, 2, 3, 4}

SynapseIds == {11, 12, 13, 14, 15}

\* the systems SimulationPlugin::build adds to Update
SimulationSystems == {"update_clock", "update_neurons", "update_synapses",
                      "update_stdp_synapses", "prune_synapses"}

\* the simulation systems of the whole application: SimulationPlugin,
\* SynapsePlugin (decay_synapses) and SiliconPlugin (insert_current)
Systems == SimulationSystems \cup {"decay_synapses", "insert_current"}

\* ColumnLayer of each neuron: two input neurons (L1), two output neurons (L6)
Layer(n) == IF n \in {1, 2} THEN "L1" ELSE "L6"

\* neurons in ascending Entity order, as the sort_by of insert_current leaves them
RECURSIVE SortedSeq(_)
SortedSeq(S) ==
    IF S = {} THEN <<>>
    ELSE LET m == CHOOSE x \in S : \A y \in S : x <= y
         IN <<m>> \o SortedSeq(S \ {m})

-----------------------------------------------------------------------------
(* Neuron models: neurons/src/izhikevich.rs, neurons/src/leaky.rs *)

\* IzhikevichNeuron as FeedForwardNetwork::add_layer spawns it
IzhikevichNeuron ==
    [kind |-> "Izhikevich", v |-> -70 * Scale, u |-> -14 * Scale,
     refactory_counter |-> 0]

\* a = 0.02, b = 0.2, c = -100, d = 8
IzhikevichParams ==
    [a |-> 20, b |-> 200, c |-> -100 * Scale, d |-> 8 * Scale,
     synapse_weight_multiplier |-> 80]

\* LifNeuron with the parameters src/main.rs gives it; v is membrane_potential
LifNeuron ==
    [kind |-> "Lif", v |-> -70 * Scale, u |-> 0, refactory_counter |-> 0]

\* refactory_period = 0.09
LifParams ==
    [reset_potential |-> -90 * Scale, threshold_potential |-> -55 * Scale,
     resting_potential |-> -70 * Scale, refactory_period |-> 90]

\* a variant of IzhikevichNeuron::update whose step of u reads the new v
IzhikevichUpdate_sequential(n, tau) ==
    LET p  == IzhikevichParams
        v1 == n.v + Mul(tau, TruncDiv(Square(n.v), 25) + 5 * n.v + 140 * Scale - n.u)
        u1 == n.u + Mul(tau, Mul(p.a, Mul(p.b, v1) - n.u))
    IN  IF v1 >= 30 * Scale
        THEN [neuron |-> [n EXCEPT !.v = p.c, !.u = u1 + p.d], fired |-> TRUE]
        ELSE [neuron |-> [n EXCEPT !.v = v1, !.u = u1], fired |-> FALSE]

\* IzhikevichNeuron::update: both Euler steps read the old v and u
IzhikevichUpdate(n, tau) ==
    LET p  == IzhikevichParams
        v1 == n.v + Mul(tau, TruncDiv(Square(n.v), 25) + 5 * n.v + 140 * Scale - n.u)
        u1 == n.u + Mul(tau, Mul(p.a, Mul(p.b, n.v) - n.u))
    IN  IF v1 >= 30 * Scale
        THEN [neuron |-> [n EXCEPT !.v = p.c, !.u = u1 + p.d], fired |-> TRUE]
        ELSE [neuron |-> [n EXCEPT !.v = v1, !.u = u1], fired |-> FALSE]

\* a variant of LifNeuron::update without the early return: the refractory
\* neuron counts down and goes on to leak and to test the threshold
LifUpdate_without_return(n, tau) ==
    LET p  == LifParams
        n1 == IF n.refactory_counter > 0
              THEN [n EXCEPT !.refactory_counter = n.refactory_counter - tau]
              ELSE n
        v1 == n.v + Mul(p.resting_potential - n.v, tau)
    IN  IF v1 > p.threshold_potential
        THEN [neuron |-> [n1 EXCEPT !.v = p.reset_potential,
                                    !.refactory_counter = p.refactory_period],
              fired |-> TRUE]
        ELSE [neuron |-> [n1 EXCEPT !.v = v1], fired |-> FALSE]

\* a variant of LifNeuron::update that resets the potential of a neuron that
\* fires and does not start its refractory period
LifUpdate_without_period(n, tau) ==
    LET p == LifParams IN
    IF n.refactory_counter > 0
    THEN [neuron |-> [n EXCEPT !.refactory_counter = n.refactory_counter - tau],
          fired |-> FALSE]
    ELSE LET v1 == n.v + Mul(p.resting_potential - n.v, tau)
         IN  IF v1 > p.threshold_potential
             THEN [neuron |-> [n EXCEPT !.v = p.reset_potential], fired |-> TRUE]
             ELSE [neuron |-> [n EXCEPT !.v = v1], fired |-> FALSE]

\* LifNeuron::update
LifUpdate(n, tau) ==
    LET p == LifParams IN
    IF n.refactory_counter > 0
    THEN [neuron |-> [n EXCEPT !.refactory_counter = n.refactory_counter - tau],
          fired |-> FALSE]
    ELSE LET delta_v == Mul(p.resting_potential - n.v, tau)
             v1 == n.v + delta_v
         IN  IF v1 > p.threshold_potential
             THEN [neuron |-> [n EXCEPT !.v = p.reset_potential,
                                        !.refactory_counter = p.refactory_period],
                   fired |-> TRUE]
             ELSE [neuron |-> [n EXCEPT !.v = v1], fired |-> FALSE]

\* Neuron::update through the trait object
NeuronUpdate(n, tau) ==
    IF n.kind = "Lif" THEN LifUpdate(n, tau) ELSE IzhikevichUpdate(n, tau)

\* a variant of add_membrane_potential in which a refractory LIF neuron
\* ignores the injection
add_membrane_potential_gated(n, delta_v) ==
    IF n.kind = "Lif"
    THEN IF n.refactory_counter > 0
         THEN n
         ELSE [n EXCEPT !.v = n.v + TruncDiv(delta_v, WScale \div Scale)]
    ELSE [n EXCEPT !.v = n.v + TruncDiv(delta_v * IzhikevichParams.synapse_weight_multiplier,
                                        WScale \div Scale)]

\* Neuron::add_membrane_potential; delta_v is WScale-valued (a weight or an
\* encoder current), the potential is Scale-valued
add_membrane_potential(n, delta_v) ==
    IF n.kind = "Lif"
    THEN [n EXCEPT !.v = n.v + TruncDiv(delta_v, WScale \div Scale)]
    ELSE [n EXCEPT !.v = n.v + TruncDiv(delta_v * IzhikevichParams.synapse_weight_multiplier,
                                        WScale \div Scale)]

-----------------------------------------------------------------------------
(* SimpleSpikeRecorder: simulator/src/lib.rs *)

\* SimpleSpikeRecorder::default
SimpleSpikeRecorder == [max_spikes |-> 1000, spikes |-> <<>>]

\* a variant of record_spike that evicts the newest timestamp instead of the
\* oldest
record_spike_newest_evicted(r, time) ==
    LET spikes == Append(r.spikes, time)
    IN  [r EXCEPT !.spikes = IF Len(spikes) > r.max_spikes
                             THEN SubSeq(spikes, 1, Len(spikes) - 1) ELSE spikes]

\* SimpleSpikeRecorder::record_spike: push, then remove(0) when over capacity
record_spike(r, time) ==
    LET spikes == Append(r.spikes, time)
    IN  [r EXCEPT !.spikes = IF Len(spikes) > r.max_spikes THEN Tail(spikes) ELSE spikes]

-----------------------------------------------------------------------------
(* StdpSynapse: synapses/src/stdp.rs *)

\* StdpParams as FeedForwardNetwork::create_synapse sets them
StdpParams ==
    [a_plus |-> 10000, a_minus |-> -10000, tau_plus |-> 20, tau_minus |-> 20,
     w_max |-> 1 * WScale, w_min |-> 0]

\* StdpSynapse as FeedForwardNetwork::create_synapse spawns it
StdpSynapse(pre_neuron, post_neuron, synapse_type, weight) ==
    [weight |-> weight, source |-> pre_neuron, target |-> post_neuron,
     synapse_type |-> synapse_type, stdp_params |-> StdpParams,
     stdp_state |-> [a |-> 0, spike_type |-> "PreSpike"]]

\* a variant of register_pre_spike that resets the trace and the side only
\* when the spike paired with a post spike
register_pre_spike_on_pairing(s) ==
    IF s.stdp_state.a # 0 /\ s.stdp_state.spike_type = "PostSpike"
    THEN [s EXCEPT !.weight = Max(Min(s.weight + s.stdp_state.a, s.stdp_params.w_max),
                                  s.stdp_params.w_min),
                   !.stdp_state = [a |-> s.stdp_params.a_plus, spike_type |-> "PreSpike"]]
    ELSE s

\* StdpSynapse::register_pre_spike
register_pre_spike(s) ==
    LET w == IF s.stdp_state.a # 0 /\ s.stdp_state.spike_type = "PostSpike"
             THEN Max(Min(s.weight + s.stdp_state.a, s.stdp_params.w_max),
                      s.stdp_params.w_min)
             ELSE s.weight
    IN  [s EXCEPT !.weight = w,
                  !.stdp_state = [a |-> s.stdp_params.a_plus, spike_type |-> "PreSpike"]]

\* a variant of register_post_spike that adds the trace left by the pre spike
register_post_spike_potentiating(s) ==
    LET w == IF s.stdp_state.a # 0 /\ s.stdp_state.spike_type = "PreSpike"
             THEN Max(Min(s.weight + s.stdp_state.a, s.stdp_params.w_max),
                      s.stdp_params.w_min)
             ELSE s.weight
    IN  [s EXCEPT !.weight = w,
                  !.stdp_state = [a |-> s.stdp_params.a_minus, spike_type |-> "PostSpike"]]

\* StdpSynapse::register_post_spike
register_post_spike(s) ==
    LET w == IF s.stdp_state.a # 0 /\ s.stdp_state.spike_type = "PreSpike"
             THEN Max(Min(s.weight - s.stdp_state.a, s.stdp_params.w_max),
                      s.stdp_params.w_min)
             ELSE s.weight
    IN  [s EXCEPT !.weight = w,
                  !.stdp_state = [a |-> s.stdp_params.a_minus, spike_type |-> "PostSpike"]]

\* <StdpSynapse as Synapse>::update: both arms of the match are the same
synapse_update(s, tau) ==
    LET delta_a == TruncDiv((0 - s.stdp_state.a) * tau, Scale)
    IN  [s EXCEPT !.stdp_state.a = s.stdp_state.a + delta_a]

\* <StdpSynapse as Synapse>::set_weight
set_weight(s, weight) == [s EXCEPT !.weight = weight]

-----------------------------------------------------------------------------
(* Events<SpikeEvent>: registered with add_event, so the two buffers are    *)
(* swapped once per frame and an event lives for two frames; the            *)
(* EventReader of update_synapses keeps a cursor.                           *)

\* EventWriter<SpikeEvent>::send
send_spike(ev, time, neuron) ==
    [ev EXCEPT !.events_b = Append(@, [id |-> ev.event_count, time |-> time,
                                       neuron |-> neuron]),
               !.event_count = @ + 1]

\* EventReader<SpikeEvent>::read: the events the cursor has not passed
unread_spikes(ev) ==
    SelectSeq(ev.events_a \o ev.events_b, LAMBDA e : e.id >= ev.last_event_count)

\* Events<SpikeEvent>::update
events_update(ev) == [ev EXCEPT !.events_a = ev.events_b, !.events_b = <<>>]

-----------------------------------------------------------------------------
(* update_clock: simulator/src/time.rs *)

\* the time_to_simulate after the run_indefinitely refill
refilled(c) ==
    IF c.run_indefinitely /\ c.time_to_simulate <= 100
    THEN c.time_to_simulate + 100
    ELSE c.time_to_simulate

clock_after_update(c) ==
    IF refilled(c) <= 0
    THEN [c EXCEPT !.time_to_simulate = refilled(c)]
    ELSE [c EXCEPT !.time = c.time + c.tau,
                   !.time_to_simulate = refilled(c) - c.tau]

update_clock ==
    /\ "update_clock" \in pending
    /\ pending' = pending \ {"update_clock"}
    /\ clock' = clock_after_update(clock)
    /\ tick' = [tick EXCEPT !.advanced = (clock'.time # clock.time)]
    /\ UNCHANGED <<schedule, calls, neurons, recorders, synapses, alive, despawn, spike_events,
                   stdp_settings, decay, encoder, deferred, frame, ui_edits>>

-----------------------------------------------------------------------------
(* update_neurons: simulator/src/lib.rs *)

\* the neurons whose update returns true in this pass
fired_neurons(ns, tau) == {n \in DOMAIN ns : NeuronUpdate(ns[n], tau).fired}

\* a variant of the integration pass in which a neuron that fires injects into
\* its targets while the pass is still running
integrate_all_injecting(ns, tau) ==
    [n \in DOMAIN ns |->
        LET m == NeuronUpdate(ns[n], tau).neuron
            incoming == {id \in alive : /\ synapses[id].target = n
                                         /\ synapses[id].source \in fired_neurons(ns, tau)}
        IN  IF incoming = {} THEN m
            ELSE add_membrane_potential(m, synapses[CHOOSE id \in incoming : TRUE].weight)]

\* the integration pass: every neuron is updated once from its own state
integrate_all(ns, tau) == [n \in DOMAIN ns |-> NeuronUpdate(ns[n], tau).neuron]

RECURSIVE send_spikes(_, _, _)
send_spikes(ev, fired, time) ==
    IF fired = <<>> THEN ev
    ELSE send_spikes(send_spike(ev, time, Head(fired)), Tail(fired), time)

\* a variant of the recording in which a firing is recorded by every recorder
record_spikes_by_all(recs, fired, time) ==
    [n \in DOMAIN recs |->
        IF fired # {} THEN record_spike(recs[n], time) ELSE recs[n]]

\* the recorders after the loop: the recorder of each neuron that fired has
\* recorded the clock time
record_spikes(recs, fired, time) ==
    [n \in DOMAIN recs |->
        IF n \in fired THEN record_spike(recs[n], time) ELSE recs[n]]

\* a variant of the early return that lets update_neurons run without budget
neurons_paused_never(c) == FALSE

\* the early return of update_neurons
neurons_paused(c) == c.time_to_simulate <= 0

update_neurons ==
    /\ "update_neurons" \in pending
    /\ pending' = pending \ {"update_neurons"}
    /\ IF neurons_paused(clock)
       THEN UNCHANGED <<neurons, recorders, spike_events, tick>>
       ELSE LET fired == fired_neurons(neurons, clock.tau) IN
            /\ neurons' = integrate_all(neurons, clock.tau)
            /\ spike_events' = send_spikes(spike_events, SortedSeq(fired), clock.time)
            /\ recorders' = record_spikes(recorders, fired, clock.time)
            /\ tick' = [tick EXCEPT !.integrate_calls =
                           [n \in Neurons |->
                               IF n \in DOMAIN neurons
                               THEN tick.integrate_calls[n] + 1
                               ELSE tick.integrate_calls[n]],
                                    !.fired = fired]
    /\ UNCHANGED <<schedule, calls, clock, synapses, alive, despawn, stdp_settings, decay, encoder,
                   deferred, frame, ui_edits>>

-----------------------------------------------------------------------------
(* update_synapses: simulator/src/lib.rs *)

\* a variant of the loop body that injects +weight whatever the synapse type
apply_synapse_unsigned(ns, s, spiking) ==
    IF s.source = spiking /\ s.target \in DOMAIN ns
    THEN [ns EXCEPT ![s.target] = add_membrane_potential(@, s.weight)]
    ELSE ns

\* the body of the inner loop for one synapse and one spike event
apply_synapse(ns, s, spiking) ==
    IF s.source = spiking /\ s.target \in DOMAIN ns
    THEN [ns EXCEPT ![s.target] =
             add_membrane_potential(@, IF s.synapse_type = "Excitatory"
                                       THEN s.weight ELSE -s.weight)]
    ELSE ns

\* a variant of the loop over the synapses that returns at a failed lookup of
\* the target instead of continuing with the next synapse
RECURSIVE propagate_spike_returning(_, _, _, _)
propagate_spike_returning(ns, syn, ids, spiking) ==
    IF ids = <<>> THEN ns
    ELSE IF syn[Head(ids)].source = spiking /\ syn[Head(ids)].target \notin DOMAIN ns
         THEN ns
         ELSE propagate_spike_returning(apply_synapse(ns, syn[Head(ids)], spiking),
                                        syn, Tail(ids), spiking)

RECURSIVE propagate_spike(_, _, _, _)
propagate_spike(ns, syn, ids, spiking) ==
    IF ids = <<>> THEN ns
    ELSE propagate_spike(apply_synapse(ns, syn[Head(ids)], spiking), syn, Tail(ids),
                         spiking)

RECURSIVE propagate_events(_, _, _, _)
propagate_events(ns, syn, ids, events) ==
    IF events = <<>> THEN ns
    ELSE propagate_events(propagate_spike(ns, syn, ids, Head(events).neuron), syn, ids,
                          Tail(events))

update_synapses ==
    /\ "update_synapses" \in pending
    /\ pending' = pending \ {"update_synapses"}
    /\ neurons' = propagate_events(neurons, synapses, SortedSeq(alive),
                                   unread_spikes(spike_events))
    /\ spike_events' = [spike_events EXCEPT !.last_event_count = spike_events.event_count]
    /\ tick' = [tick EXCEPT !.propagated = @ \o unread_spikes(spike_events)]
    /\ UNCHANGED <<schedule, calls, clock, recorders, synapses, alive, despawn, stdp_settings, decay,
                   encoder, deferred, frame, ui_edits>>

-----------------------------------------------------------------------------
(* update_stdp_synapses: simulator/src/lib.rs *)

\* exp(-x) for a Scale-valued x in [0, 1): the Taylor polynomial of degree 5
ExpFrac(x) ==
    LET x2 == Mul(x, x)
        x3 == Mul(x2, x)
        x4 == Mul(x3, x)
        x5 == Mul(x4, x)
    IN  Scale - x + (x2 \div 2) - (x3 \div 6) + (x4 \div 24) - (x5 \div 120)

\* f64::exp(-x) for a Scale-valued x >= 0; below one unit from x = 7 on
RECURSIVE ExpNeg(_)
ExpNeg(x) ==
    IF x >= 7 * Scale THEN 0
    ELSE IF x >= Scale THEN Mul(368, ExpNeg(x - Scale))
    ELSE ExpFrac(x)

RECURSIVE SumSeq(_)
SumSeq(q) == IF q = <<>> THEN 0 ELSE Head(q) + SumSeq(Tail(q))

\* average: None is modelled by the empty sequence at the call sites
average(values) == TruncDiv(SumSeq(values), Len(values))

\* the spikes of a recorder inside the look-back window
recent_spikes(r, time, look_back) ==
    SelectSeq(r.spikes, LAMBDA t : t > time - look_back)

\* a variant of the three continues that lets inhibitory synapses through
stdp_skipped_when_dangling(s, recs) ==
    \/ s.source \notin DOMAIN recs
    \/ s.target \notin DOMAIN recs

\* the three continues at the head of the loop: an inhibitory synapse, no
\* source neuron, no target neuron
stdp_skipped(s, recs) ==
    \/ s.synapse_type = "Inhibitory"
    \/ s.source \notin DOMAIN recs
    \/ s.target \notin DOMAIN recs

\* the weight of one synapse after the body of the loop
stdp_weight(s, recs, c, settings) ==
    IF stdp_skipped(s, recs) THEN s.weight
    ELSE LET pre_spikes  == recent_spikes(recs[s.source], c.time, settings.look_back)
             post_spikes == recent_spikes(recs[s.target], c.time, settings.look_back)
         IN  IF pre_spikes = <<>> THEN s.weight
             ELSE LET delta_t == IF post_spikes = <<>> THEN -(c.tau * 2)
                                 ELSE average(post_spikes) - average(pre_spikes)
                      delta_w ==
                          IF delta_t > 0
                          THEN TruncDiv(s.stdp_params.a_plus
                                        * ExpNeg(TruncDiv(delta_t * Scale,
                                                          s.stdp_params.tau_plus)),
                                        Scale)
                          ELSE TruncDiv(s.stdp_params.a_minus
                                        * ExpNeg(TruncDiv((-delta_t) * Scale,
                                                          s.stdp_params.tau_minus)),
                                        Scale)
                  IN  Min(Max(s.weight + delta_w, s.stdp_params.w_min),
                          s.stdp_params.w_max)

update_stdp_synapses ==
    /\ "update_stdp_synapses" \in pending
    /\ pending' = pending \ {"update_stdp_synapses"}
    /\ LET next_update == stdp_settings.next_update - clock.tau IN
       IF next_update >= 0
       THEN /\ stdp_settings' = [stdp_settings EXCEPT !.next_update = next_update]
            /\ UNCHANGED synapses
       ELSE /\ stdp_settings' = [stdp_settings EXCEPT
                                    !.next_update = stdp_settings.update_interval]
            /\ synapses' = [id \in SynapseIds |->
                              IF id \in alive
                              THEN [synapses[id] EXCEPT !.weight =
                                       stdp_weight(synapses[id], recorders, clock,
                                                   stdp_settings)]
                              ELSE synapses[id]]
    /\ UNCHANGED <<schedule, calls, clock, neurons, recorders, alive, despawn, spike_events, decay,
                   encoder, deferred, frame, ui_edits, tick>>

-----------------------------------------------------------------------------
(* prune_synapses: simulator/src/lib.rs *)

\* a variant of the pruning test that also despawns a weight of exactly 0.1
to_prune_inclusive(syn, ids) == {id \in ids : syn[id].weight <= WScale \div 10}

\* the synapses the loop despawns: weight < 0.1
to_prune(syn, ids) == {id \in ids : syn[id].weight < WScale \div 10}

prune_synapses ==
    /\ "prune_synapses" \in pending
    /\ pending' = pending \ {"prune_synapses"}
    /\ despawn' = despawn \cup to_prune(synapses, alive)
    /\ UNCHANGED <<schedule, calls, clock, neurons, recorders, synapses, alive, spike_events,
                   stdp_settings, decay, encoder, deferred, frame, ui_edits, tick>>

-----------------------------------------------------------------------------
(* decay_synapses: synapses/src/lib.rs *)

NoDecay == [present |-> FALSE, interval |-> 0, amount |-> 0, next_decay |-> 0]

\* the weight decay_synapses hands to set_weight
decayed_weight(s, d) == s.weight - d.amount

\* a variant of the test that lets the decay run in every tick
decay_due_every_tick(d, time) == d.present

\* if let Some(decay) ... if time >= decay.next_decay
decay_due(d, time) == d.present /\ time >= d.next_decay

decay_synapses ==
    /\ "decay_synapses" \in pending
    /\ pending' = pending \ {"decay_synapses"}
    /\ IF decay_due(decay, clock.time)
       THEN /\ decay' = [decay EXCEPT !.next_decay = clock.time + decay.interval]
            /\ synapses' = [id \in SynapseIds |->
                              IF id \in alive
                              THEN set_weight(synapses[id],
                                              decayed_weight(synapses[id], decay))
                              ELSE synapses[id]]
       ELSE UNCHANGED <<decay, synapses>>
    /\ UNCHANGED <<schedule, calls, clock, neurons, recorders, alive, despawn, spike_events,
                   stdp_settings, encoder, deferred, frame, ui_edits, tick>>

-----------------------------------------------------------------------------
(* string_to_spike_train: transcoder/src/nlp.rs *)

\* the strings insert_current plays, as their bytes: "hello" and "world"
Hello == <<104, 101, 108, 108, 111>>

World == <<119, 111, 114, 108, 100>>

\* char_to_binary: bit i of the byte
char_to_binary(c, i) == (c \div (2 ^ i)) % 2

\* char_to_spike_train: after binary.reverse(), position i holds bit 7 - i
RECURSIVE char_to_spike_train(_, _, _)
char_to_spike_train(c, time_frame, i) ==
    IF i >= 8 THEN <<>>
    ELSE (IF char_to_binary(c, 7 - i) = 1 THEN <<(i * time_frame) \div 8>> ELSE <<>>)
         \o char_to_spike_train(c, time_frame, i + 1)

\* every time of q shifted by d
Shift(q, d) == [k \in 1..Len(q) |-> q[k] + d]

RECURSIVE string_to_spike_train_from(_, _, _)
string_to_spike_train_from(str, time_frame, index) ==
    IF index >= Len(str) THEN <<>>
    ELSE Shift(char_to_spike_train(str[index + 1], time_frame \div Len(str), 0),
               index * Scale)
         \o string_to_spike_train_from(str, time_frame, index + 1)

string_to_spike_train(str, time_frame) == string_to_spike_train_from(str, time_frame, 0)

Reverse(q) == [k \in 1..Len(q) |-> q[Len(q) + 1 - k]]

-----------------------------------------------------------------------------
(* insert_current: silicon/src/main.rs *)

\* EncoderState::default
EncoderState ==
    [is_playing |-> FALSE, current_time |-> 0, paused_time |-> 5 * Scale,
     spike_train |-> <<>>, class |-> 0]

\* the values the model draws for gen_range(0.6..=0.8)
CurrentChoices == {600000, 800000}

\* the values the model draws for gen_range(-2.0..=2.0)
ExplorationChoices == {-2 * Scale, 0, Scale \div 2, 2 * Scale}

\* the neurons of a layer in the sorted order of insert_current
layer_neurons(l) == SortedSeq({n \in DOMAIN neurons : Layer(n) = l})

\* the input neurons a class drives: step_by(2), from the first or the second
class_inputs(class) ==
    LET inputs == layer_neurons("L1")
    IN  {inputs[k] : k \in {j \in 1..Len(inputs) :
                              IF class = 0 THEN j % 2 = 1 ELSE j % 2 = 0}}

\* spikes of one recorder in the trailing window of 5.0
window_spikes(r, time) == Len(SelectSeq(r.spikes, LAMBDA t : t >= time - 5 * Scale))

\* the loop over the sorted output neurons, class_for_neuron = k - 1
RECURSIVE reward_sum(_, _, _, _, _)
reward_sum(outputs, k, recs, time, class) ==
    IF k > Len(outputs) THEN 0
    ELSE LET spikes == window_spikes(recs[outputs[k]], time)
         IN  (IF spikes = 0 THEN -Scale ELSE 0)
             + (IF k - 1 = class THEN spikes * Scale ELSE -(spikes * Scale))
             + reward_sum(outputs, k + 1, recs, time, class)

\* the reward before the exploration replacement: clamp(reward_min, reward_max)
computed_reward(recs, time, class) ==
    Clamp(reward_sum(layer_neurons("L6"), 1, recs, time, class), -5 * Scale, 5 * Scale)

\* a variant of the loop body that leaves out the clamp
apply_deferred_event_unclamped(syn, ids, event, reward) ==
    IF event.synapse \in ids
    THEN [syn EXCEPT ![event.synapse].weight =
             @ + TruncDiv(event.delta_weight * reward, Scale)]
    ELSE syn

\* the body of the drain loop for one event
apply_deferred_event(syn, ids, event, reward) ==
    IF event.synapse \in ids
    THEN [syn EXCEPT ![event.synapse].weight =
             Clamp(@ + TruncDiv(event.delta_weight * reward, Scale),
                   syn[event.synapse].stdp_params.w_min,
                   syn[event.synapse].stdp_params.w_max)]
    ELSE syn

\* for event in deferred_stdp_events.drain()
RECURSIVE apply_deferred_events(_, _, _, _)
apply_deferred_events(syn, ids, events, reward) ==
    IF events = <<>> THEN syn
    ELSE apply_deferred_events(apply_deferred_event(syn, ids, Head(events), reward),
                               ids, Tail(events), reward)

\* a variant of the drain that leaves every event but the first in the queue
drained_first_only(events) == IF events = <<>> THEN <<>> ELSE Tail(events)

\* what Events::drain leaves in the queue
drained(events) == <<>>

\* is_playing branch: advance the presentation, inject into the class's inputs
insert_current_playing ==
    LET current_time == encoder.current_time + clock.tau
        train == encoder.spike_train
    IN  IF train # <<>>
        THEN IF train[Len(train)] >= current_time
             THEN /\ encoder' = [encoder EXCEPT !.current_time = current_time,
                                                !.spike_train = SubSeq(train, 1, Len(train) - 1)]
                  /\ \E current \in [class_inputs(encoder.class) -> CurrentChoices] :
                        neurons' = [n \in DOMAIN neurons |->
                                      IF n \in class_inputs(encoder.class)
                                      THEN add_membrane_potential(neurons[n], current[n])
                                      ELSE neurons[n]]
             ELSE /\ encoder' = [encoder EXCEPT !.current_time = current_time]
                  /\ UNCHANGED neurons
        ELSE /\ encoder' = [encoder EXCEPT !.is_playing = FALSE,
                                           !.paused_time = 5 * Scale,
                                           !.current_time = 0]
             /\ UNCHANGED neurons

\* a variant of the exploration that samples whatever the computed reward is
applied_rewards_always_sampled(computed) == ExplorationChoices

\* if reward == 0.0 { reward = gen_range(-2.0..=2.0) }: the rewards the drain
\* loop may be handed
applied_rewards(computed) ==
    IF computed = 0 THEN ExplorationChoices ELSE {computed}

\* paused branch at the end of the pause: reward, drain, next presentation
insert_current_reward(paused_time) ==
    LET computed == computed_reward(recorders, clock.time, encoder.class)
        class == (encoder.class + 1) % 2
    IN  \E reward \in applied_rewards(computed) :
          /\ synapses' = apply_deferred_events(synapses, alive, deferred, reward)
          /\ deferred' = drained(deferred)
          /\ encoder' = [encoder EXCEPT
                !.paused_time = paused_time,
                !.class = class,
                !.is_playing = TRUE,
                !.spike_train = Reverse(string_to_spike_train(
                                    IF class = 0 THEN Hello ELSE World, 5 * Scale))]
          /\ tick' = [tick EXCEPT !.rewards = Append(@, [reward |-> reward,
                                                         computed |-> computed,
                                                         events |-> deferred,
                                                         before |-> synapses])]

\* a variant of the test that ends the pause at its first tick
pause_over_at_once(paused_time) == TRUE

\* if encoder.paused_time <= 0.0
pause_over(paused_time) == paused_time <= 0

insert_current ==
    /\ "insert_current" \in pending
    /\ pending' = pending \ {"insert_current"}
    /\ IF clock.time_to_simulate <= 0
       THEN UNCHANGED <<neurons, synapses, encoder, deferred, tick>>
       ELSE IF encoder.is_playing
            THEN insert_current_playing /\ UNCHANGED <<synapses, deferred, tick>>
            ELSE LET paused_time == encoder.paused_time - clock.tau IN
                 IF pause_over(paused_time)
                 THEN insert_current_reward(paused_time) /\ UNCHANGED neurons
                 ELSE /\ encoder' = [encoder EXCEPT !.paused_time = paused_time]
                      /\ UNCHANGED <<neurons, synapses, deferred, tick>>
    /\ UNCHANGED <<schedule, calls, clock, recorders, alive, despawn, spike_events, stdp_settings,
                   decay, frame, ui_edits>>

-----------------------------------------------------------------------------
(* The Update schedule *)

\* the entities parented to an entity: create_synapse parents a synapse to its
\* presynaptic neuron (the two mesh children of a synapse carry no state)
children(e, syn, live) == {id \in live : syn[id].source = e}

\* a variant of the despawn that also takes the parent of each entity
despawn_with_parent(roots, syn, live) ==
    roots \cup {syn[id].source : id \in roots \cap live}

\* despawn_recursive: the entities and everything parented below them
despawn_recursive(roots, syn, live) ==
    roots \cup UNION {children(e, syn, live) : e \in roots}

EmptyTick ==
    [advanced |-> FALSE, integrate_calls |-> [n \in Neurons |-> 0], fired |-> {},
     propagated |-> <<>>, rewards |-> <<>>]

\* the end of one run of the schedule and the start of the next: the queued
\* Commands are applied (despawn_recursive), Events<SpikeEvent> is updated
next_frame ==
    /\ pending = {}
    /\ frame + 1 < MaxFrames
    /\ frame' = frame + 1
    /\ pending' = schedule
    /\ LET gone == despawn_recursive(despawn, synapses, alive)
       IN  /\ alive' = alive \ gone
           /\ neurons' = [n \in DOMAIN neurons \ gone |-> neurons[n]]
           /\ recorders' = [n \in DOMAIN recorders \ gone |-> recorders[n]]
    /\ despawn' = {}
    /\ spike_events' = events_update(spike_events)
    /\ tick' = EmptyTick
    /\ UNCHANGED <<schedule, calls, clock, synapses, stdp_settings, decay,
                   encoder, deferred, ui_edits>>

-----------------------------------------------------------------------------
(* The user, between two runs of the schedule: silicon/src/ui/state.rs *)

\* values of the "Time to simulate" slider the model draws
SliderChoices == {0, 50}

\* the potential the model lets the user type into the neuron inspector
InspectorPotential == 29 * Scale

\* the neurons the model lets the user select: an input and an output neuron
InspectedNeurons == {2, 3}

\* the user acts between two runs of the schedule; in the model of the whole
\* application the run is configured before the first frame
BetweenFrames ==
    /\ pending = schedule
    /\ ui_edits < MaxUiEdits
    /\ schedule = Systems => frame = 0

\* simulation_settings: the Run button
simulation_settings_run ==
    /\ BetweenFrames
    /\ \E slider \in SliderChoices :
          clock' = [clock EXCEPT !.time_to_simulate = slider]
    /\ ui_edits' = ui_edits + 1
    /\ UNCHANGED <<schedule, calls, neurons, recorders, synapses, alive, despawn, spike_events,
                   stdp_settings, decay, encoder, deferred, pending, frame, tick>>

\* simulation_settings: the "Run indefinitely" checkbox
simulation_settings_indefinitely ==
    /\ BetweenFrames
    /\ clock' = [clock EXCEPT !.run_indefinitely = ~clock.run_indefinitely]
    /\ ui_edits' = ui_edits + 1
    /\ UNCHANGED <<schedule, calls, neurons, recorders, synapses, alive, despawn, spike_events,
                   stdp_settings, decay, encoder, deferred, pending, frame, tick>>

\* the pauses the model lets the user type: one and two steps of the clock
PauseChoices == {25, 50}

\* training_settings: the inspector of EncoderState, used to shorten the pause
training_settings ==
    /\ BetweenFrames
    /\ \E paused_time \in PauseChoices :
          encoder' = [encoder EXCEPT !.paused_time = paused_time]
    /\ ui_edits' = ui_edits + 1
    /\ UNCHANGED <<schedule, calls, clock, neurons, recorders, synapses, alive, despawn, spike_events,
                   stdp_settings, decay, deferred, pending, frame, tick>>

\* the neuron inspector (ui_for_entity on the selected neuron): the user sets v
neuron_inspector ==
    /\ BetweenFrames
    /\ \E n \in InspectedNeurons \cap DOMAIN neurons :
          neurons' = [neurons EXCEPT ![n].v = InspectorPotential]
    /\ ui_edits' = ui_edits + 1
    /\ UNCHANGED <<schedule, calls, clock, recorders, synapses, alive, despawn, spike_events,
                   stdp_settings, decay, encoder, deferred, pending, frame, tick>>

\* the DeferredStdpEvents the model draws: a potentiation of a weak synapse,
\* a depression of a stronger one, a potentiation of a lateral synapse
DeferredChoices ==
    {[synapse |-> 11, delta_weight |-> StdpParams.a_plus],
     [synapse |-> 14, delta_weight |-> StdpParams.a_minus],
     [synapse |-> 12, delta_weight |-> StdpParams.a_plus]}

\* a user system sending a DeferredStdpEvent (Events<DeferredStdpEvent> is a
\* public resource that no system of the repository writes)
send_deferred_stdp_event ==
    /\ pending = schedule
    /\ frame = 0
    /\ Len(deferred) < MaxDeferred
    /\ \E event \in DeferredChoices : deferred' = Append(deferred, event)
    /\ UNCHANGED <<schedule, calls, clock, neurons, recorders, synapses, alive, despawn, spike_events,
                   stdp_settings, decay, encoder, pending, frame, ui_edits, tick>>

-----------------------------------------------------------------------------
(* The state after App construction: SimulationPlugin::build, create_neurons *)

\* SynapseDecay as a user of SynapsePlugin may insert it
SynapseDecay ==
    [present |-> TRUE, interval |-> 1 * Scale, amount |-> 150000, next_decay |-> 0]

\* the synapses create_synapse spawns: sources, targets, types and weights
created_synapses ==
    [id \in SynapseIds |->
        CASE id = 11 -> StdpSynapse(2, 3, "Excitatory", WScale \div 10)
          [] id = 12 -> StdpSynapse(3, 4, "Inhibitory", 2 * WScale)
          [] id = 13 -> StdpSynapse(4, 3, "Inhibitory", 4 * WScale)
          [] id = 14 -> StdpSynapse(1, 4, "Excitatory",
                                    3 * (WScale \div 10))
          [] id = 15 -> StdpSynapse(3, 1, "Excitatory",
                                    3 * (WScale \div 10))]

\* the App with the given neurons, the given systems in Update, one of the
\* given SynapseDecay resources and recorders of one of the given capacities
Spawned(population, systems, decays, capacities) ==
    /\ clock = [time |-> 0, tau |-> 25, time_to_simulate |-> 0,
                run_indefinitely |-> FALSE]
    /\ stdp_settings = [look_back |-> 1 * Scale, update_interval |-> 1 * Scale,
                        next_update |-> -100]
    /\ neurons = population
    /\ \E max_spikes \in capacities :
          recorders = [n \in DOMAIN population |->
                         [SimpleSpikeRecorder EXCEPT !.max_spikes = max_spikes]]
    /\ synapses = created_synapses
    /\ alive = SynapseIds
    /\ despawn = {}
    /\ spike_events = [events_a |-> <<>>, events_b |-> <<>>, event_count |-> 0,
                       last_event_count |-> 0]
    /\ decay \in decays
    /\ encoder = EncoderState
    /\ deferred = <<>>
    /\ schedule = systems
    /\ calls = <<>>
    /\ pending = schedule
    /\ frame = 0
    /\ ui_edits = 0
    /\ tick = EmptyTick

\* the network of the application: Izhikevich neurons only
Constructed(systems, decays, capacities) ==
    Spawned([n \in Neurons |-> IzhikevichNeuron], systems, decays, capacities)

\* SimulationPlugin alone
Init == Constructed(SimulationSystems, {NoDecay}, {SimpleSpikeRecorder.max_spikes})

Next ==
    \/ update_clock
    \/ update_neurons
    \/ update_synapses
    \/ update_stdp_synapses
    \/ prune_synapses
    \/ next_frame
    \/ simulation_settings_run
    \/ simulation_settings_indefinitely
    \/ neuron_inspector

Spec == Init /\ [][Next]_vars

-----------------------------------------------------------------------------
(* The application: SimulationPlugin, SynapsePlugin and SiliconPlugin *)

InitApp == Constructed(Systems, {SynapseDecay}, {SimpleSpikeRecorder.max_spikes})

NextApp ==
    \/ update_clock
    \/ update_neurons
    \/ update_synapses
    \/ update_stdp_synapses
    \/ prune_synapses
    \/ decay_synapses
    \/ insert_current
    \/ next_frame
    \/ simulation_settings_run
    \/ training_settings
    \/ send_deferred_stdp_event

SpecApp == InitApp /\ [][NextApp]_vars

-----------------------------------------------------------------------------
(* A SimpleSpikeRecorder on its own: any sequence of record_spike calls on   *)
(* the recorder of neuron 1                                                  *)

\* the timestamps the model draws
SpikeTimes == {25, 50}

\* the timestamps handed to record_spike so far, in call order
pushed == [k \in 1..Len(calls) |-> calls[k].time]

call_record_spike ==
    /\ Len(calls) < MaxCalls
    /\ \E time \in SpikeTimes :
          /\ recorders' = [recorders EXCEPT ![1] = record_spike(@, time)]
          /\ calls' = Append(calls, [op |-> "record_spike", time |-> time])
    /\ UNCHANGED <<clock, neurons, synapses, alive, despawn, spike_events,
                   stdp_settings, decay, encoder, deferred, pending, frame, ui_edits,
                   schedule, tick>>

InitRecorder == Constructed({}, {NoDecay}, 0..MaxCapacity)

NextRecorder == call_record_spike

SpecRecorder == InitRecorder /\ [][NextRecorder]_vars

-----------------------------------------------------------------------------
(* A StdpSynapse on its own: any sequence of register_pre_spike,             *)
(* register_post_spike and update calls on synapse 11                        *)

\* the three methods return (): the log holds <<>> for what a call returned
call_register_pre_spike ==
    /\ Len(calls) < MaxCalls
    /\ synapses' = [synapses EXCEPT ![11] = register_pre_spike(@)]
    /\ calls' = Append(calls, [op |-> "register_pre_spike", time |-> clock.time,
                               returned |-> <<>>])
    /\ UNCHANGED <<clock, neurons, recorders, alive, despawn, spike_events,
                   stdp_settings, decay, encoder, deferred, pending, frame, ui_edits,
                   schedule, tick>>

call_register_post_spike ==
    /\ Len(calls) < MaxCalls
    /\ synapses' = [synapses EXCEPT ![11] = register_post_spike(@)]
    /\ calls' = Append(calls, [op |-> "register_post_spike", time |-> clock.time,
                               returned |-> <<>>])
    /\ UNCHANGED <<clock, neurons, recorders, alive, despawn, spike_events,
                   stdp_settings, decay, encoder, deferred, pending, frame, ui_edits,
                   schedule, tick>>

call_update ==
    /\ Len(calls) < MaxCalls
    /\ synapses' = [synapses EXCEPT ![11] = synapse_update(@, clock.tau)]
    /\ calls' = Append(calls, [op |-> "update", time |-> clock.time,
                               returned |-> <<>>])
    /\ UNCHANGED <<clock, neurons, recorders, alive, despawn, spike_events,
                   stdp_settings, decay, encoder, deferred, pending, frame, ui_edits,
                   schedule, tick>>

InitStdp == Constructed({}, {NoDecay}, {SimpleSpikeRecorder.max_spikes})

NextStdp ==
    \/ call_register_pre_spike
    \/ call_register_post_spike
    \/ call_update

SpecStdp == InitStdp /\ [][NextStdp]_vars

-----------------------------------------------------------------------------
(* Properties *)

\* the steps of the integration pass, of the propagation pass and of the
\* reward loop
IntegrationStep ==
    /\ "update_neurons" \in pending
    /\ "update_neurons" \notin pending'
    /\ ~(clock.time_to_simulate <= 0)

PropagationStep == "update_synapses" \in pending /\ "update_synapses" \notin pending'

RewardStep == Len(tick'.rewards) > Len(tick.rewards)

Paused == clock.time_to_simulate <= 0 /\ ~clock.run_indefinitely

PipelineOrder ==
    <<"update_clock", "update_neurons", "update_synapses", "update_stdp_synapses",
      "prune_synapses">>

\* C1: within every frame the five systems of SimulationPlugin run in the
\* order update_clock, update_neurons, update_synapses, update_stdp_synapses,
\* prune_synapses: at every moment a system has run only if every system
\* before it in that order has run.
C1_FixedPipelineOrder ==
    \A i, j \in 1..Len(PipelineOrder) :
        (i < j /\ PipelineOrder[j] \notin pending) => PipelineOrder[i] \notin pending

\* the synapses a spike of neuron a reaches
outgoing(a) == {id \in alive : synapses[id].source = a}

\* C2: a spike fired during the integration pass is injected only by a later
\* propagation step.  (1) The integration pass gives every neuron exactly
\* the result of its own update, so no update observes an injection of the
\* same pass, and the spikes it emits are left unread.  (2) Outside the
\* user's edits, a potential changes only in an integration or a propagation
\* step.  (3) A propagation step that reads one spike of a neuron A with one
\* outgoing Excitatory synapse A->B of weight w gives B
\* add_membrane_potential(+w) and leaves every other neuron alone.
C2_InjectionOnlyInPropagation ==
    [][ /\ IntegrationStep =>
              /\ \A n \in Neurons :
                    neurons'[n] = NeuronUpdate(neurons[n], clock.tau).neuron
              /\ spike_events'.last_event_count = spike_events.last_event_count
              /\ Len(unread_spikes(spike_events'))
                    = Len(unread_spikes(spike_events))
                      + Cardinality({n \in Neurons :
                                       NeuronUpdate(neurons[n], clock.tau).fired})
              /\ tick'.propagated = tick.propagated
        /\ (neurons' # neurons /\ ui_edits' = ui_edits) =>
              IntegrationStep \/ PropagationStep
        /\ PropagationStep =>
              \A id \in alive :
                 (/\ Len(unread_spikes(spike_events)) = 1
                  /\ unread_spikes(spike_events)[1].neuron = synapses[id].source
                  /\ outgoing(synapses[id].source) = {id}
                  /\ synapses[id].synapse_type = "Excitatory")
                 => /\ neurons'[synapses[id].target]
                          = add_membrane_potential(neurons[synapses[id].target],
                                                   synapses[id].weight)
                    /\ \A n \in Neurons \ {synapses[id].target} :
                          neurons'[n] = neurons[n]
      ]_vars

\* C2 witness: neuron 2 has fired, its spike has been propagated through
\* synapse 11 and neuron 3, at rest before, has moved by the injection
C2_Witness ==
    /\ \E k \in 1..Len(tick.propagated) : tick.propagated[k].neuron = 2
    /\ 11 \in alive
    /\ recorders[2].spikes # <<>>
    /\ neurons[3] = add_membrane_potential(IzhikevichNeuron, synapses[11].weight)
    /\ neurons[3].v > IzhikevichNeuron.v

\* C3: while the budget is <= 0 and run_indefinitely is false, no step
\* changes Clock.time, no step integrates a neuron, and only the user
\* replenishes the budget.
C3_PausedClockHolds ==
    [][ Paused =>
          /\ clock'.time = clock.time
          /\ \A n \in Neurons : tick'.integrate_calls[n] <= tick.integrate_calls[n]
          /\ ~Paused' => ui_edits' # ui_edits
      ]_vars

\* C3 witness: a budget has been used up and a whole frame has run paused
C3_Witness ==
    /\ Paused
    /\ clock.time > 0
    /\ frame >= 1
    /\ pending = {}
    /\ ~tick.advanced
    /\ \A n \in Neurons : tick.integrate_calls[n] = 0

\* C4: while the clock is paused, no system changes the simulation state:
\* clock, neurons, recorders, synapses, the spawned synapses, the queued
\* despawns and the plasticity settings stay as they are.
C4_PausedTickChangesNothing ==
    [][ (Paused /\ ui_edits' = ui_edits) =>
          UNCHANGED <<clock, neurons, recorders, synapses, alive, despawn,
                      stdp_settings>>
      ]_vars

\* C5: at the end of every frame, time has advanced in the frame exactly when
\* every neuron has been integrated exactly once in the frame.
C5_AdvanceIffIntegrated ==
    pending = {} =>
        (tick.advanced <=> \A n \in Neurons : tick.integrate_calls[n] = 1)

\* whether the weight of a synapse lies in its own [w_min, w_max]
in_range(s) == s.stdp_params.w_min <= s.weight /\ s.weight <= s.stdp_params.w_max

\* C6: every step that changes the weight of a spawned synapse leaves the
\* weight in [w_min, w_max].
C6_WeightInRange ==
    [][ \A id \in alive :
           synapses'[id].weight # synapses[id].weight => in_range(synapses'[id])
      ]_vars

\* C7: after any sequence of record_spike calls the recorder holds at most
\* max_spikes timestamps and they are the most recently pushed ones, in push
\* order.
C7_RecorderKeepsMostRecent ==
    LET r == recorders[1]
        k == Min(Len(pushed), r.max_spikes)
    IN  /\ Len(r.spikes) <= r.max_spikes
        /\ r.spikes = SubSeq(pushed, Len(pushed) - k + 1, Len(pushed))

\* C7 witness: more timestamps than the capacity have been pushed and the
\* oldest has been evicted
C7_Witness ==
    /\ recorders[1].max_spikes = 2
    /\ Len(pushed) = 4
    /\ pushed[1] # pushed[3]
    /\ Len(recorders[1].spikes) = 2

\* C8: register_pre_spike and register_post_spike leave the weight of the
\* synapse as it is.
C8_RegisterLeavesWeight ==
    [][ (/\ Len(calls') > Len(calls)
         /\ calls'[Len(calls')].op \in {"register_pre_spike", "register_post_spike"})
        => synapses'[11].weight = synapses[11].weight
      ]_vars

\* C9: every reward step leaves the queue of DeferredStdpEvents empty.
C9_RewardStepDrainsAll == [][RewardStep => deferred' = <<>>]_vars

\* C9 witness: a reward step has consumed a queue of two events
C9_Witness ==
    /\ tick.rewards # <<>>
    /\ Len(tick.rewards[1].events) >= 2
    /\ deferred = <<>>

\* the weight of synapse id after the events of the queue that name it, one
\* after the other
RECURSIVE rewarded_weight(_, _, _, _)
rewarded_weight(weight, s, events, reward) ==
    IF events = <<>> THEN weight
    ELSE rewarded_weight(Clamp(weight + TruncDiv(Head(events).delta_weight * reward,
                                                 Scale),
                               s.stdp_params.w_min, s.stdp_params.w_max),
                         s, Tail(events), reward)

\* C10: a reward step with reward r gives every spawned synapse named by
\* drained events the weight clamp(weight + delta_weight * r, w_min, w_max),
\* event after event; events naming a synapse that is no longer spawned
\* change nothing, and the other events are still applied.
C10_RewardAppliesClamped ==
    [][ RewardStep =>
          LET r == tick'.rewards[Len(tick'.rewards)].reward IN
          \A id \in SynapseIds :
             synapses'[id] =
                IF id \in alive
                THEN [synapses[id] EXCEPT !.weight =
                         rewarded_weight(synapses[id].weight, synapses[id],
                                         SelectSeq(deferred,
                                                   LAMBDA e : e.synapse = id),
                                         r)]
                ELSE synapses[id]
      ]_vars

\* C10 witness: a reward step has drained an event of a pruned synapse
\* followed by an event of a spawned synapse, whose weight has changed
C10_Witness ==
    /\ tick.rewards # <<>>
    /\ LET step == tick.rewards[1] IN
       /\ Len(step.events) = 2
       /\ step.events[1].synapse \notin alive
       /\ step.events[2].synapse \in alive
       /\ synapses[step.events[2].synapse].weight
             # step.before[step.events[2].synapse].weight
       /\ synapses[step.events[1].synapse] = step.before[step.events[1].synapse]

\* C11: the reward a reward step computes (before the exploration
\* replacement) lies in [-1, 1].
C11_RewardWithinUnit ==
    \A k \in 1..Len(tick.rewards) :
        -Scale <= tick.rewards[k].computed /\ tick.rewards[k].computed <= Scale

\* the call a step of the synapse on its own makes, and the call before it
ThisCall == calls'[Len(calls')].op

LastCall == calls[Len(calls)].op

CallStep == Len(calls') > Len(calls)

\* C12: a pre spike directly followed by a post spike makes
\* register_post_spike emit the delta a_plus, and a post spike directly
\* followed by a pre spike makes register_pre_spike emit a_minus; the
\* emitted delta is the change the call makes to the weight.
C12_CausalPairingDelta ==
    [][ (CallStep /\ calls # <<>>) =>
          LET s == synapses[11] IN
          /\ (LastCall = "register_pre_spike" /\ ThisCall = "register_post_spike")
                => synapses'[11].weight
                      = Clamp(s.weight + s.stdp_params.a_plus,
                              s.stdp_params.w_min, s.stdp_params.w_max)
          /\ (LastCall = "register_post_spike" /\ ThisCall = "register_pre_spike")
                => synapses'[11].weight
                      = Clamp(s.weight + s.stdp_params.a_minus,
                              s.stdp_params.w_min, s.stdp_params.w_max)
      ]_vars

\* the number of unread spike events of neuron a
spike_count(a) ==
    Len(SelectSeq(unread_spikes(spike_events), LAMBDA e : e.neuron = a))

\* the current one spike sends through synapse id: +weight or -weight
signed_weight(id) ==
    IF synapses[id].synapse_type = "Excitatory"
    THEN synapses[id].weight ELSE -synapses[id].weight

\* the sum, over the synapses ids that end in neuron n, of what the
\* injections of their unread presynaptic spikes add to the potential of n
RECURSIVE incoming(_, _)
incoming(ids, n) ==
    IF ids = {} THEN 0
    ELSE LET id == CHOOSE x \in ids : TRUE
             one == add_membrane_potential(neurons[n], signed_weight(id)).v
                        - neurons[n].v
         IN  (IF synapses[id].target = n
              THEN spike_count(synapses[id].source) * one ELSE 0)
             + incoming(ids \ {id}, n)

\* C13: a propagation step gives every neuron one injection of +weight per
\* unread spike and Excitatory synapse ending in it whose presynaptic neuron
\* is the spiking one, one injection of -weight per such Inhibitory synapse,
\* with the weight the synapse has at that moment, and nothing else: a
\* synapse whose presynaptic neuron has no unread spike injects nothing.
C13_PropagationInjectsSignedWeight ==
    [][ PropagationStep =>
          \A n \in Neurons :
             neurons'[n] = [neurons[n] EXCEPT !.v = @ + incoming(alive, n)]
      ]_vars

\* C13 witness: neuron 3 has fired and its spike has gone through the
\* Inhibitory synapse 12, lowering the potential of neuron 4 by the
\* injection of its weight
C13_Witness ==
    /\ \E k \in 1..Len(tick.propagated) : tick.propagated[k].neuron = 3
    /\ 12 \in alive
    /\ synapses[12].synapse_type = "Inhibitory"
    /\ neurons[4] = add_membrane_potential(IzhikevichNeuron, -synapses[12].weight)
    /\ neurons[4].v < IzhikevichNeuron.v

-----------------------------------------------------------------------------
(* The simulation with a neuron entity despawned from outside: the synapses  *)
(* that name it stay spawned and their lookups fail                          *)

\* the neurons the model lets be despawned: two input neurons and an output
\* neuron
DespawnChoices == {1, 2, 4}

\* World::despawn of one neuron entity between two runs of the schedule
despawn_neuron ==
    /\ pending = schedule
    /\ DOMAIN neurons = Neurons
    /\ \E gone \in DespawnChoices :
          /\ neurons' = [n \in Neurons \ {gone} |-> neurons[n]]
          /\ recorders' = [n \in Neurons \ {gone} |-> recorders[n]]
    /\ UNCHANGED <<clock, synapses, alive, despawn, spike_events, stdp_settings,
                   decay, encoder, deferred, pending, frame, ui_edits, schedule,
                   calls, tick>>

NextDangling ==
    \/ update_clock
    \/ update_neurons
    \/ update_synapses
    \/ update_stdp_synapses
    \/ prune_synapses
    \/ next_frame
    \/ simulation_settings_run
    \/ neuron_inspector
    \/ despawn_neuron

SpecDangling == Init /\ [][NextDangling]_vars

\* a spawned synapse one of whose neurons no longer exists
dangling(id) ==
    synapses[id].source \notin DOMAIN neurons \/ synapses[id].target \notin DOMAIN neurons

\* the step of update_stdp_synapses in which the countdown has expired
StdpUpdateStep ==
    /\ "update_stdp_synapses" \in pending
    /\ "update_stdp_synapses" \notin pending'
    /\ stdp_settings.next_update - clock.tau < 0

PruneStep == "prune_synapses" \in pending /\ "prune_synapses" \notin pending'

FrameEnd == frame' = frame + 1

\* C15: a pruning pass queues for despawn exactly the spawned synapses whose
\* weight is < 0.1 at the pass (a weight of exactly 0.1 is kept), the end of
\* the frame removes exactly the queued synapses from the graph, and
\* nothing else queues or removes a synapse.
C15_PruneRemovesWeak ==
    [][ /\ PruneStep =>
              \A id \in alive :
                 id \in despawn' <=>
                    (id \in despawn \/ 10 * synapses[id].weight < WScale)
        /\ FrameEnd => (alive' = alive \ despawn /\ despawn' = {})
        /\ alive' # alive => FrameEnd
        /\ despawn' # despawn => (PruneStep \/ FrameEnd)
      ]_vars

\* C15 witness: synapse 11, depressed below 0.1, has been removed by a
\* pruning pass that kept the other synapses, after an earlier pass had kept
\* it at exactly 0.1
C15_Witness ==
    /\ 11 \notin alive
    /\ 10 * synapses[11].weight < WScale
    /\ alive = SynapseIds \ {11}
    /\ \A id \in alive : 10 * synapses[id].weight >= WScale


\* C16: no step of the simulation destroys a neuron: the set of neuron entities
\* is the constructed one in every state, and the end of a frame that applies
\* the queued despawns removes exactly the queued synapses, each of them
\* parented to a neuron that is still there afterwards.
C16_NeuronsNeverDestroyed ==
    /\ DOMAIN neurons = Neurons
    /\ DOMAIN recorders = Neurons
    /\ despawn \subseteq SynapseIds
    /\ \A id \in SynapseIds \ alive : synapses[id].source \in DOMAIN neurons

C16_Witness ==
    /\ \E id \in SynapseIds \ alive :
          /\ synapses[id].source \in DOMAIN neurons
          /\ synapses[id].target \in DOMAIN neurons
    /\ DOMAIN neurons = Neurons
    /\ tick.advanced


-----------------------------------------------------------------------------
(* The clock alone: update_clock is the only system of the schedule and the  *)
(* user has the three controls of simulation_settings, the slider of the     *)
(* time constant included.                                                    *)

\* the time constants the model lets the user type into the slider's field,
\* which does not clamp to the slider's range: a negative and a larger one
TauChoices == {0 - 25, 50}

\* simulation_settings: the "Time constant in ms" slider
simulation_settings_tau ==
    /\ BetweenFrames
    /\ \E tau \in TauChoices : clock' = [clock EXCEPT !.tau = tau]
    /\ ui_edits' = ui_edits + 1
    /\ UNCHANGED <<schedule, calls, neurons, recorders, synapses, alive, despawn,
                   spike_events, stdp_settings, decay, encoder, deferred, pending,
                   frame, tick>>

InitClock == Constructed({"update_clock"}, {NoDecay}, {SimpleSpikeRecorder.max_spikes})

NextClock ==
    \/ update_clock
    \/ next_frame
    \/ simulation_settings_run
    \/ simulation_settings_indefinitely
    \/ simulation_settings_tau

SpecClock == InitClock /\ [][NextClock]_vars

\* a step of update_clock
ClockStep == "update_clock" \in pending /\ "update_clock" \notin pending'

\* the time left to simulate once "run indefinitely" has topped it up
time_remaining ==
    IF clock.run_indefinitely /\ 10 * clock.time_to_simulate <= Scale
    THEN clock.time_to_simulate + Scale \div 10
    ELSE clock.time_to_simulate

\* C17: Clock.time never decreases: every step leaves it or adds exactly tau
\* to it, and a step of update_clock increases it exactly when the time left
\* to simulate is positive after the "run indefinitely" refill, and then takes
\* exactly tau from the time left.
C17_ClockMonotone ==
    [][ /\ clock'.time >= clock.time
        /\ clock'.time \in {clock.time, clock.time + clock.tau}
        /\ ClockStep =>
              /\ (clock'.time > clock.time) <=> (time_remaining > 0)
              /\ time_remaining > 0 =>
                    clock'.time_to_simulate = time_remaining - clock.tau
      ]_vars


-----------------------------------------------------------------------------
(* A neuron on its own: one LIF or one Izhikevich neuron driven through the  *)
(* Neuron trait, at most one add_membrane_potential before each update, at   *)
(* the time constant the user has set before the first call.                 *)

\* the currents the model injects: what moves the potential by +20 mV and by
\* -20 mV (an Izhikevich neuron multiplies the current by 80)
InjectChoices(n) ==
    IF n.kind = "Lif"
    THEN {20 * WScale, 0 - 20 * WScale}
    ELSE {WScale \div 4, 0 - WScale \div 4}

\* the number of update calls made so far
update_calls == Cardinality({k \in 1..Len(calls) : calls[k].op = "update"})

\* Neuron::add_membrane_potential on neuron 1
call_add_membrane_potential ==
    /\ update_calls < MaxTicks
    /\ IF calls = <<>> THEN TRUE ELSE LastCall = "update"
    /\ \E delta_v \in InjectChoices(neurons[1]) :
          LET n == add_membrane_potential(neurons[1], delta_v)
          IN  /\ neurons' = [neurons EXCEPT ![1] = n]
              /\ calls' = Append(calls, [op |-> "add_membrane_potential",
                                         arg |-> delta_v, returned |-> n.v])
    /\ UNCHANGED <<clock, recorders, synapses, alive, despawn, spike_events,
                   stdp_settings, decay, encoder, deferred, pending, frame, ui_edits,
                   schedule, tick>>

\* Neuron::update on neuron 1
call_neuron_update ==
    /\ update_calls < MaxTicks
    /\ LET r == NeuronUpdate(neurons[1], clock.tau)
       IN  /\ neurons' = [neurons EXCEPT ![1] = r.neuron]
           /\ calls' = Append(calls, [op |-> "update", arg |-> clock.tau,
                                      returned |-> r.fired])
    /\ UNCHANGED <<clock, recorders, synapses, alive, despawn, spike_events,
                   stdp_settings, decay, encoder, deferred, pending, frame, ui_edits,
                   schedule, tick>>

InitNeuron ==
    \E neuron \in {LifNeuron, IzhikevichNeuron} :
       Spawned([n \in {1} |-> neuron], {}, {NoDecay}, {SimpleSpikeRecorder.max_spikes})

NextNeuron ==
    \/ call_add_membrane_potential
    \/ call_neuron_update
    \/ (calls = <<>> /\ simulation_settings_tau)

SpecNeuron == InitNeuron /\ [][NextNeuron]_vars

\* a step that is a call of update on a LIF neuron
LifUpdateStep ==
    /\ CallStep
    /\ ThisCall = "update"
    /\ neurons[1].kind = "Lif"

\* C18: an update of a LIF neuron whose potential is at most the threshold and
\* whose refractory counter is 0 returns false and moves the potential toward
\* the resting potential: the distance to it does not grow and the potential
\* does not pass to its other side.
C18_SubthresholdRelaxes ==
    [][ ( /\ LifUpdateStep
          /\ neurons[1].v <= LifParams.threshold_potential
          /\ neurons[1].refactory_counter = 0 )
        => LET rest   == LifParams.resting_potential
               before == neurons[1].v - rest
               after  == neurons'[1].v - rest
           IN  /\ calls'[Len(calls')].returned = FALSE
               /\ Abs(after) <= Abs(before)
               /\ before >= 0 => after >= 0
               /\ before <= 0 => after <= 0
      ]_vars

\* the same, for the time constants that are not negative
C18_PositiveTau ==
    [][ ( /\ LifUpdateStep
          /\ clock.tau >= 0
          /\ neurons[1].v <= LifParams.threshold_potential
          /\ neurons[1].refactory_counter = 0 )
        => LET rest   == LifParams.resting_potential
               before == neurons[1].v - rest
               after  == neurons'[1].v - rest
           IN  /\ calls'[Len(calls')].returned = FALSE
               /\ Abs(after) <= Abs(before)
               /\ before >= 0 => after >= 0
               /\ before <= 0 => after <= 0
      ]_vars


\* the calls so far are the scenario of one LIF neuron at tau = 0.025 that
\* receives add_membrane_potential(+20) before every update
Injected20EveryTick ==
    /\ neurons[1].kind = "Lif"
    /\ clock.tau = 25
    /\ \A k \in 1..Len(calls) :
          IF k % 2 = 1
          THEN calls[k].op = "add_membrane_potential" /\ calls[k].arg = 20 * WScale
          ELSE calls[k].op = "update"

\* the number of update calls so far that returned true
fire_count ==
    Cardinality({k \in 1..Len(calls) : calls[k].op = "update" /\ calls[k].returned})

\* C19: in the scenario of +20 before each of 5 updates at tau = 0.025 the LIF
\* neuron fires exactly once, and from its firing on the potential is the
\* reset potential for as long as the refractory counter is above 0.
C19_FiresOnceThenHoldsReset ==
    Injected20EveryTick =>
       /\ fire_count <= 1
       /\ update_calls = 5 => fire_count = 1
       /\ (fire_count = 1 /\ neurons[1].refactory_counter > 0) =>
             neurons[1].v = LifParams.reset_potential

\* the first half of C19 alone: exactly one firing in the five ticks
C19_FiresExactlyOnce ==
    Injected20EveryTick =>
       /\ fire_count <= 1
       /\ update_calls = 5 => fire_count = 1


\* a step that is a call of add_membrane_potential
AddStep == CallStep /\ ThisCall = "add_membrane_potential"

\* C20: every call of add_membrane_potential, whatever the state of the neuron
\* (a LIF neuron in its refractory period included), moves the potential at
\* once by delta for a LIF neuron and by delta * synapse_weight_multiplier for
\* an Izhikevich neuron, a negative delta lowering it, leaves the rest of the
\* neuron alone and returns the new potential.
C20_InjectionAppliesAtOnce ==
    [][ AddStep =>
          LET delta  == calls'[Len(calls')].arg
              before == neurons[1]
              after  == neurons'[1]
              moved  == (after.v - before.v) * (WScale \div Scale)
          IN  /\ before.kind = "Lif" => moved = delta
              /\ before.kind = "Izhikevich" =>
                    moved = delta * IzhikevichParams.synapse_weight_multiplier
              /\ after = [before EXCEPT !.v = after.v]
              /\ calls'[Len(calls')].returned = after.v
      ]_vars

C20_Witness ==
    /\ neurons[1].kind = "Lif"
    /\ neurons[1].refactory_counter > 0
    /\ neurons[1].v = LifParams.reset_potential - 20 * Scale
    /\ calls # <<>>
    /\ calls[Len(calls)].op = "add_membrane_potential"
    /\ calls[Len(calls)].arg < 0


\* C21: a running simulation never holds a configuration that should have been
\* rejected when it was built: the time constant of the Clock is positive and
\* every STDP synapse has w_min <= w_max.
C21_ConfigurationValid ==
    /\ clock.tau > 0
    /\ \A id \in alive :
          synapses[id].stdp_params.w_min <= synapses[id].stdp_params.w_max


\* C22: an integration step in which a neuron fires leaves every STDP synapse
\* out of it as register_pre_spike leaves it (trace a_plus, last side PreSpike)
\* and every STDP synapse into it as register_post_spike leaves it (trace
\* a_minus, last side PostSpike), the synapses between two firing neurons
\* being left either way.
C22_FiringRegistersSpikes ==
    [][ IntegrationStep =>
          \A id \in alive :
             LET pre  == synapses[id].source \in tick'.fired
                 post == synapses[id].target \in tick'.fired
                 p    == synapses[id].stdp_params
                 as_pre  == [a |-> p.a_plus, spike_type |-> "PreSpike"]
                 as_post == [a |-> p.a_minus, spike_type |-> "PostSpike"]
             IN  /\ (pre /\ ~post) => synapses'[id].stdp_state = as_pre
                 /\ (post /\ ~pre) => synapses'[id].stdp_state = as_post
                 /\ (pre /\ post) => synapses'[id].stdp_state \in {as_pre, as_post}
      ]_vars


\* C23: when all systems of a frame have run, the spikes the propagation step
\* of the frame has consumed are exactly the spikes the integration step of the
\* frame has emitted, each of them once and none from an earlier frame.
C23_SpikesConsumedInSameTick ==
    pending = {} => tick.propagated = spike_events.events_b


\* a step that is a call of register_pre_spike or of register_post_spike
RegisterStep ==
    /\ CallStep
    /\ ThisCall \in {"register_pre_spike", "register_post_spike"}

\* C24: register_pre_spike returns the trace a exactly when a is not
\* negligible and the last recorded side is PostSpike, register_post_spike
\* exactly when a is not negligible and the last recorded side is PreSpike,
\* and in every other case the call returns nothing.
C24_EmitsOnOppositeSide ==
    [][ RegisterStep =>
          LET s        == synapses[11]
              opposite == IF ThisCall = "register_pre_spike"
                          THEN "PostSpike" ELSE "PreSpike"
              pairing  == s.stdp_state.a # 0 /\ s.stdp_state.spike_type = opposite
          IN  calls'[Len(calls')].returned =
                 IF pairing THEN <<s.stdp_state.a>> ELSE <<>>
      ]_vars


\* C25: whatever the synapse held before, a call of register_pre_spike leaves
\* it with last side PreSpike and trace a_plus, and a call of
\* register_post_spike with last side PostSpike and trace a_minus.
C25_RegisterResetsTrace ==
    [][ RegisterStep =>
          LET p == synapses[11].stdp_params IN
          synapses'[11].stdp_state =
             IF ThisCall = "register_pre_spike"
             THEN [a |-> p.a_plus, spike_type |-> "PreSpike"]
             ELSE [a |-> p.a_minus, spike_type |-> "PostSpike"]
      ]_vars

\* C25 witness: register_pre_spike called twice in a row after an update: the
\* second call met no post spike to pair with, and the synapse holds PreSpike
\* and a_plus
C25_Witness ==
    /\ Len(calls) >= 3
    /\ calls[Len(calls)].op = "register_pre_spike"
    /\ calls[Len(calls) - 1].op = "register_pre_spike"
    /\ calls[Len(calls) - 2].op = "update"
    /\ synapses[11].stdp_state =
          [a |-> synapses[11].stdp_params.a_plus, spike_type |-> "PreSpike"]


-----------------------------------------------------------------------------
(* The simulation with spikes registered on synapse 11 before the first      *)
(* frame: the traces a register call has set are there when the ticks run.   *)

InitTrace == Init

NextTrace ==
    \/ update_clock
    \/ update_neurons
    \/ update_synapses
    \/ update_stdp_synapses
    \/ prune_synapses
    \/ next_frame
    \/ simulation_settings_run
    \/ (frame = 0 /\ pending = schedule /\ call_register_pre_spike)
    \/ (frame = 0 /\ pending = schedule /\ call_register_post_spike)

SpecTrace == InitTrace /\ [][NextTrace]_vars

\* the trace a after k relaxations a' = a + (0 - a) * tau
RECURSIVE relaxed(_, _, _)
relaxed(a, tau, k) ==
    IF k = 0 THEN a
    ELSE relaxed(a + TruncDiv((0 - a) * tau, Scale), tau, k - 1)

\* the ticks that advanced time so far: time goes up by tau in each of them
ticks_advanced == clock.time \div clock.tau

\* C26: when all systems of a tick that advanced time have run, the trace of
\* every STDP synapse has been relaxed toward zero once in each tick that
\* advanced time since it was set: it is 0, or a_plus or a_minus after that
\* many relaxations a' = a + (0 - a) * tau.
C26_TraceRelaxedEveryTick ==
    (pending = {} /\ tick.advanced) =>
       \A id \in alive :
          LET s == synapses[id] IN
          s.stdp_state.a \in
             {0, relaxed(s.stdp_params.a_plus, clock.tau, ticks_advanced),
                 relaxed(s.stdp_params.a_minus, clock.tau, ticks_advanced)}


\* C27: an update of a LIF neuron whose refractory counter is above 0 takes tau
\* from the counter, returns false and leaves the potential as it is; an
\* update that returns true started from a counter that was <= 0.
C27_RefractoryCountsDown ==
    [][ LifUpdateStep =>
          /\ neurons[1].refactory_counter > 0 =>
                /\ neurons'[1].refactory_counter
                      = neurons[1].refactory_counter - clock.tau
                /\ calls'[Len(calls')].returned = FALSE
                /\ neurons'[1].v = neurons[1].v
          /\ calls'[Len(calls')].returned = TRUE =>
                neurons[1].refactory_counter <= 0
      ]_vars

\* C27 witness: a refractory LIF neuron that two injections have taken above
\* the threshold has been updated twice: the counter is down by two tau from
\* the refractory period and the neuron has not fired again
C27_Witness ==
    /\ neurons[1].kind = "Lif"
    /\ calls # <<>>
    /\ calls[Len(calls)].op = "update"
    /\ calls[Len(calls)].returned = FALSE
    /\ neurons[1].refactory_counter = LifParams.refactory_period - 2 * clock.tau
    /\ neurons[1].refactory_counter > 0
    /\ neurons[1].v > LifParams.threshold_potential


\* C28: an update of a LIF neuron that is not refractory returns true exactly
\* when the potential after the leak step is above the threshold; then the
\* potential is the reset potential and the counter the refractory period,
\* and otherwise the potential is the leaked one and the counter is unchanged.
C28_FiresAboveThreshold ==
    [][ (LifUpdateStep /\ ~(neurons[1].refactory_counter > 0)) =>
          LET p      == LifParams
              before == neurons[1]
              after  == neurons'[1]
              leaked == before.v
                          + TruncDiv((p.resting_potential - before.v) * clock.tau, Scale)
              fired  == calls'[Len(calls')].returned
          IN  /\ fired = (leaked > p.threshold_potential)
              /\ fired => /\ after.v = p.reset_potential
                          /\ after.refactory_counter = p.refactory_period
              /\ ~fired => /\ after.v = leaked
                           /\ after.refactory_counter = before.refactory_counter
      ]_vars

\* C28 witness: the LIF neuron has just fired for the second time, after its
\* first refractory period ran out
C28_Witness ==
    /\ neurons[1].kind = "Lif"
    /\ fire_count = 2
    /\ calls[Len(calls)].op = "update"
    /\ calls[Len(calls)].returned = TRUE
    /\ neurons[1].v = LifParams.reset_potential
    /\ neurons[1].refactory_counter = LifParams.refactory_period


\* a step that is a call of update on an Izhikevich neuron
IzhikevichUpdateStep ==
    /\ CallStep
    /\ ThisCall = "update"
    /\ neurons[1].kind = "Izhikevich"

\* C29: an update of an Izhikevich neuron takes one explicit Euler step of
\* size tau, v by tau * (0.04 v^2 + 5 v + 140 - u) and u by
\* tau * a * (b v - u), both from the v and u before the call; it returns true
\* exactly when the new v is >= 30, then with v = c and u = the stepped u + d,
\* and otherwise v and u are the stepped values.
C29_IzhikevichEulerStep ==
    [][ IzhikevichUpdateStep =>
          LET p     == IzhikevichParams
              v     == neurons[1].v
              u     == neurons[1].u
              tau   == clock.tau
              v1    == v + Mul(tau, TruncDiv(Square(v), 25) + 5 * v + 140 * Scale - u)
              u1    == u + Mul(tau, Mul(p.a, Mul(p.b, v) - u))
              fired == calls'[Len(calls')].returned
          IN  /\ fired = (v1 >= 30 * Scale)
              /\ fired => (neurons'[1].v = p.c /\ neurons'[1].u = u1 + p.d)
              /\ ~fired => (neurons'[1].v = v1 /\ neurons'[1].u = u1)
      ]_vars

\* C29 witness: the Izhikevich neuron has just fired: v is c and u has had d
\* added to it
C29_Witness ==
    /\ neurons[1].kind = "Izhikevich"
    /\ calls # <<>>
    /\ calls[Len(calls)].op = "update"
    /\ calls[Len(calls)].returned = TRUE
    /\ neurons[1].v = IzhikevichParams.c
    /\ neurons[1].u > IzhikevichNeuron.u


\* C30: in a reward step whose computed reward is exactly 0 the reward handed
\* to the drain loop is a value of [-2, 2], and in a reward step whose
\* computed reward is not 0 it is the computed reward itself.
C30_ZeroRewardExplores ==
    [][ RewardStep =>
          LET step == tick'.rewards[Len(tick'.rewards)] IN
          /\ step.computed = 0 =>
                (step.reward >= -2 * Scale /\ step.reward <= 2 * Scale)
          /\ step.computed # 0 => step.reward = step.computed
      ]_vars

\* C30 witness: a reward step that computed 0 has applied the sampled reward
\* -2 to a queued event and moved the weight of its synapse
C30_Witness ==
    /\ tick.rewards # <<>>
    /\ LET step == tick.rewards[Len(tick.rewards)] IN
       /\ step.computed = 0
       /\ step.reward = -2 * Scale
       /\ \E k \in 1..Len(step.events) :
             LET id == step.events[k].synapse IN
             /\ id \in alive
             /\ synapses[id].weight # step.before[id].weight


-----------------------------------------------------------------------------
(* The reward step on its own: insert_current is the only system, the run    *)
(* is one step of the clock before the end of a pause, and the spikes the    *)
(* output neurons have recorded, the class and the queue of                  *)
(* DeferredStdpEvents are drawn from small sets.                             *)

\* the spike times an output neuron has recorded: none, one or two spikes
RecordedChoices == {<<>>, <<25>>, <<25, 50>>}

\* the queues of at most MaxDeferred events
QueueChoices ==
    UNION {[1..k -> DeferredChoices] : k \in 0..MaxDeferred}

InitReward ==
    /\ clock = [time |-> 50, tau |-> 25, time_to_simulate |-> 2 * Scale,
                run_indefinitely |-> FALSE]
    /\ stdp_settings = [look_back |-> 1 * Scale, update_interval |-> 1 * Scale,
                        next_update |-> -100]
    /\ neurons = [n \in Neurons |-> IzhikevichNeuron]
    /\ \E recorded \in [{n \in Neurons : Layer(n) = "L6"} -> RecordedChoices] :
          recorders = [n \in Neurons |->
                         [SimpleSpikeRecorder EXCEPT !.spikes =
                             IF Layer(n) = "L6" THEN recorded[n] ELSE <<>>]]
    /\ synapses = created_synapses
    /\ alive = SynapseIds
    /\ despawn = {}
    /\ spike_events = [events_a |-> <<>>, events_b |-> <<>>, event_count |-> 0,
                       last_event_count |-> 0]
    /\ decay = NoDecay
    /\ \E class \in {0, 1} :
          encoder = [EncoderState EXCEPT !.paused_time = clock.tau, !.class = class]
    /\ deferred \in QueueChoices
    /\ schedule = {"insert_current"}
    /\ calls = <<>>
    /\ pending = schedule
    /\ frame = 0
    /\ ui_edits = 0
    /\ tick = EmptyTick

NextReward ==
    \/ insert_current
    \/ next_frame

SpecReward == InitReward /\ [][NextReward]_vars


\* C31: every step leaves the recorder of every neuron as it is, except the
\* integration step for a neuron that fires in it, whose recorder gets the
\* clock time appended once; the recorders of the other neurons stay as they
\* are in that step too.
C31_RecorderOwnedByNeuron ==
    [][ \A n \in DOMAIN recorders :
           IF IntegrationStep /\ n \in tick'.fired
           THEN recorders'[n] =
                   [recorders[n] EXCEPT !.spikes = Append(@, clock.time)]
           ELSE recorders'[n] = recorders[n]
      ]_vars

\* C31 witness: neuron 2 has fired in this frame and its recorder holds the
\* one timestamp, while the recorders of the neurons that did not fire are
\* empty
C31_Witness ==
    /\ tick.fired = {2}
    /\ recorders[2].spikes = <<clock.time>>
    /\ \A n \in Neurons \ {2} : recorders[n].spikes = <<>>


-----------------------------------------------------------------------------
(* The decay on its own: update_clock and decay_synapses are the systems of  *)
(* the schedule, and the App has no SynapseDecay resource or one whose       *)
(* interval is two steps of the clock.                                       *)

\* a SynapseDecay of interval 0.05
ShortDecay == [SynapseDecay EXCEPT !.interval = 50]

InitDecay ==
    Constructed({"update_clock", "decay_synapses"}, {NoDecay, ShortDecay},
                {SimpleSpikeRecorder.max_spikes})

NextDecay ==
    \/ update_clock
    \/ decay_synapses
    \/ next_frame
    \/ simulation_settings_run
    \/ simulation_settings_indefinitely

SpecDecay == InitDecay /\ [][NextDecay]_vars

\* a step of decay_synapses
DecayStep == "decay_synapses" \in pending /\ "decay_synapses" \notin pending'

\* C32: a step of decay_synapses with a SynapseDecay present and the clock
\* time at or past next_decay takes amount from the weight of every synapse
\* and sets next_decay to the time plus the interval, so the next decay is at
\* least one interval of simulated time away; every other step, and every
\* step without the resource, leaves all weights and the resource alone.
C32_DecayAtTheInterval ==
    [][ IF DecayStep /\ decay.present /\ clock.time >= decay.next_decay
        THEN /\ decay' = [decay EXCEPT !.next_decay = clock.time + decay.interval]
             /\ decay'.next_decay >= decay.next_decay + decay.interval
             /\ \A id \in alive :
                   synapses'[id] =
                      [synapses[id] EXCEPT !.weight = @ - decay.amount]
        ELSE /\ decay' = decay
             /\ synapses' = synapses
      ]_vars

\* C32 witness: the decay has run twice, an interval of simulated time apart
C32_Witness ==
    /\ decay.present
    /\ clock.time > 0
    /\ \A id \in alive :
          synapses[id].weight = created_synapses[id].weight - 2 * decay.amount


-----------------------------------------------------------------------------
(* The clock under "run indefinitely": update_clock is the only system, the  *)
(* time constant keeps its default 0.025, and the user has the checkbox and  *)
(* the Run button, with the slider's value dragged or typed.                 *)

\* a value typed into the field of the "Time to simulate" slider, which does
\* not clamp to the slider's range 0..100
TypedSliderChoices == {0 - Scale \div 5}

\* simulation_settings: the Run button after a value was typed
simulation_settings_run_typed ==
    /\ BetweenFrames
    /\ \E slider \in TypedSliderChoices :
          clock' = [clock EXCEPT !.time_to_simulate = slider]
    /\ ui_edits' = ui_edits + 1
    /\ UNCHANGED <<schedule, calls, neurons, recorders, synapses, alive, despawn,
                   spike_events, stdp_settings, decay, encoder, deferred, pending,
                   frame, tick>>

InitRefill == InitClock

NextRefill ==
    \/ update_clock
    \/ next_frame
    \/ simulation_settings_run
    \/ simulation_settings_run_typed
    \/ simulation_settings_indefinitely

SpecRefill == InitRefill /\ [][NextRefill]_vars

\* C33: with "run indefinitely" set and a time constant in (0, 0.1], every run
\* of update_clock advances the simulated time.
C33_AdvancesEveryTick ==
    [][ (/\ ClockStep
         /\ clock.run_indefinitely
         /\ clock.tau > 0
         /\ 10 * clock.tau <= Scale)
        => clock'.time > clock.time
      ]_vars


-----------------------------------------------------------------------------
(* A presentation: insert_current from the end of a pause on, with the time  *)
(* constant the user may type while the simulation runs.                     *)

\* a time constant typed into the field of the slider, above its range
TypedTauChoices == {Scale \div 5}

\* simulation_settings: the "Time constant in ms" slider with a typed value
simulation_settings_tau_typed ==
    /\ BetweenFrames
    /\ \E tau \in TypedTauChoices : clock' = [clock EXCEPT !.tau = tau]
    /\ ui_edits' = ui_edits + 1
    /\ UNCHANGED <<schedule, calls, neurons, recorders, synapses, alive, despawn,
                   spike_events, stdp_settings, decay, encoder, deferred, pending,
                   frame, tick>>

InitPresentation == InitReward

NextPresentation ==
    \/ insert_current
    \/ next_frame
    \/ simulation_settings_tau_typed

SpecPresentation == InitPresentation /\ [][NextPresentation]_vars

\* C34: a presentation keeps moving towards its end: while the encoder plays
\* with a positive time constant, the next spike time of the train is not
\* behind the presentation's current time, so every unpaused tick takes one
\* spike off the train until it is empty and is_playing is cleared. (A spike
\* time behind current_time is never popped, since current_time only grows.)
C34_PresentationNotStalled ==
    (/\ encoder.is_playing
     /\ clock.tau > 0
     /\ encoder.spike_train # <<>>)
    => encoder.spike_train[Len(encoder.spike_train)] >= encoder.current_time


\* a step of insert_current
InsertStep == "insert_current" \in pending /\ "insert_current" \notin pending'

JustBuilt == frame = 0 /\ pending = schedule /\ ui_edits = 0 /\ calls = <<>>

\* C37: every STDP synapse the network builder has created starts with its
\* weight inside its own bounds, w_min <= weight <= w_max.
C37_CreatedWeightsWithinBounds ==
    JustBuilt =>
       \A id \in alive :
          /\ synapses[id].stdp_params.w_min <= synapses[id].weight
          /\ synapses[id].weight <= synapses[id].stdp_params.w_max


-----------------------------------------------------------------------------
(* The recording of spikes: update_clock and update_neurons in either order  *)
(* in every frame, on a clock that the Run button has started with 2.0 to    *)
(* simulate, and the neuron inspector between the frames.                    *)

InitRecording ==
    /\ clock = [time |-> 0, tau |-> 25, time_to_simulate |-> 2 * Scale,
                run_indefinitely |-> FALSE]
    /\ stdp_settings = [look_back |-> 1 * Scale, update_interval |-> 1 * Scale,
                        next_update |-> -100]
    /\ neurons = [n \in Neurons |-> IzhikevichNeuron]
    /\ recorders = [n \in Neurons |-> SimpleSpikeRecorder]
    /\ synapses = created_synapses
    /\ alive = SynapseIds
    /\ despawn = {}
    /\ spike_events = [events_a |-> <<>>, events_b |-> <<>>, event_count |-> 0,
                       last_event_count |-> 0]
    /\ decay = NoDecay
    /\ encoder = EncoderState
    /\ deferred = <<>>
    /\ schedule = {"update_clock", "update_neurons"}
    /\ calls = <<>>
    /\ pending = schedule
    /\ frame = 0
    /\ ui_edits = 0
    /\ tick = EmptyTick

NextRecording ==
    \/ update_clock
    \/ update_neurons
    \/ next_frame
    \/ neuron_inspector

SpecRecording == InitRecording /\ [][NextRecording]_vars

\* C38: the timestamps of every recorder are in strictly increasing order, so
\* no recorder holds the same clock time twice.
C38_TimestampsStrictlyIncrease ==
    \A n \in DOMAIN recorders :
       \A i \in 1..(Len(recorders[n].spikes) - 1) :
          recorders[n].spikes[i] < recorders[n].spikes[i + 1]


\* a step of update_stdp_synapses
StdpStep ==
    /\ "update_stdp_synapses" \in pending
    /\ "update_stdp_synapses" \notin pending'

\* C39: the countdown of update_stdp_synapses advances only with simulated
\* time: in a frame in which the clock is paused and has not advanced, the
\* StdpSettings stay as they are and the weight-update body does not run.
C39_CountdownFollowsSimulatedTime ==
    [][ (/\ StdpStep
         /\ Paused
         /\ ~tick.advanced)
        => /\ stdp_settings' = stdp_settings
           /\ synapses' = synapses
      ]_vars


====
